---- MODULE Spec2Model ----
(***************************************************************************)
(* A model of the YouTube dashboard: the snapshot store, the delta engine  *)
(* (compute_deltas_all), the ranker (get_top_videos_by_delta) and the CLI  *)
(* menu loop / web index handler that drive them.                          *)
(***************************************************************************)
EXTENDS Integers, Sequences, FiniteSets, TLC

VARIABLES
    \* --- the pure pipeline (delta engine and ranker) ---
    phase,              \* "idle" | "input" | "deltas" | "ranked"; for a load on
                        \* its own: "stored" | "loaded" | "raised"
    previous_snapshot,  \* argument of compute_deltas_all
    current_snapshot,   \* argument of compute_deltas_all / get_top_videos_by_delta
    deltas_all,         \* DeltaSet: result of compute_deltas_all, argument of the ranker
    metric,             \* argument of get_top_videos_by_delta
    top_n,              \* argument of get_top_videos_by_delta
    top_list,           \* result of get_top_videos_by_delta
    \* --- the CLI process, the web handler and the files they share ---
    pc,                 \* the CLI process: "menu" | "crashed" | "exited"
    data_file,          \* youtube_metrics.json (DATA_FILE_PATH)
    last_run_file,      \* last_option5_run.json (LAST_RUN_FILE)
    now,                \* the clock, in ticks
    YOUTUBE_API_KEY,    \* whether config.py holds a key
    run,                \* what the last handled menu choice or web request did
    last_saved,         \* the snapshot most recently handed to save_current_data
    last_build5,        \* when option 5 last started a discovery build
    last_ok_build5,     \* when the last option-5 build whose run wrote the guard started
    \* --- one call of an API helper, on its own ---
    api_phase,          \* "idle" | "input" | "returned"
    call_video_ids,     \* argument video_ids of fetch_youtube_stats_for_videos
    call_channels_cfg,  \* channels.json as load_channels_config returns it
    call_keywords_cfg,  \* keywords.json as load_keywords_config returns it
    answers,            \* what the provider answers to the requests of the call
    returned            \* [raised, stats] or [raised, snapshot]: how the call ended

pure_vars == <<phase, previous_snapshot, current_snapshot, deltas_all,
               metric, top_n, top_list>>

main_vars == <<pc, data_file, last_run_file, now, YOUTUBE_API_KEY, run,
               last_saved, last_build5, last_ok_build5>>

api_vars == <<api_phase, call_video_ids, call_channels_cfg, call_keywords_cfg,
              answers, returned>>

vars == <<pure_vars, main_vars, api_vars>>

----------------------------------------------------------------------------
(* Bounds of the model *)

\* counts entered or fetched range over 0..MaxCount
MaxCount == 2

\* deltas handed to the ranker range over -1..MaxDelta
MaxDelta == 1

\* the ranker is asked for 1..MaxN rows
MaxN == 4

\* the clock's resolution: ticks in a second
TicksPerSecond == 2

\* the clock runs over MaxDays days
MaxDays == 1

\* a bulk fetch asks for up to MaxBatches batches of IDs
MaxBatches == 3

\* the discovery calls find videos among MaxFound IDs
MaxFound == 3

----------------------------------------------------------------------------
(* Python values *)

\* Python's None
None == [none |-> TRUE]

\* the string "N/A", the absent-marker of a Delta
NA == [t |-> "str", n |-> 0, d |-> 1]

\* an int
PyInt(i) == [t |-> "int", n |-> i, d |-> 1]

\* a float of value n/d (d > 0)
PyFloat(n, d) == [t |-> "float", n |-> n, d |-> d]

\* the outcome of an expression that raises
Raised == [t |-> "raise", n |-> 0, d |-> 1]

\* isinstance(v, str)
IsStr(v) == v.t = "str"

\* isinstance(v, int)
IsInt(v) == v.t = "int"

\* Python's comparison of two numbers (int or float): a < b
NumLess(a, b) == a.n * b.d < b.n * a.d

\* Python's equality of two numbers (int or float): a == b
NumEq(a, b) == a.n * b.d = b.n * a.d

Range(s) == {s[i] : i \in 1..Len(s)}

Min(a, b) == IF a < b THEN a ELSE b

Max(a, b) == IF a > b THEN a ELSE b

\* A dict that keeps insertion order: its keys in order, and the value at each
EmptyDict == [keys |-> <<>>, at |-> [k \in {} |-> None]]

DictKeys(D) == Range(D.keys)

\* D[k] = v
dict_set(D, k, v) ==
    IF k \in DictKeys(D)
    THEN [keys |-> D.keys,
          at |-> [x \in DictKeys(D) |-> IF x = k THEN v ELSE D.at[x]]]
    ELSE [keys |-> Append(D.keys, k),
          at |-> [x \in DictKeys(D) \cup {k} |-> IF x = k THEN v ELSE D.at[x]]]

\* snapshot.get("videos", {})
get_videos(snapshot) ==
    IF "videos" \in DOMAIN snapshot THEN snapshot.videos ELSE EmptyDict

----------------------------------------------------------------------------
(* Delta computations: nim_core.compute_deltas_all *)

NumericFields == {"views", "likes", "comments", "subscribers"}

DeltaFields == {"views_delta", "likes_delta", "comments_delta",
                "subscribers_delta", "views_delta_pct"}

\* the entry written when there is no baseline for a video
AllNA == [f \in DeltaFields |-> NA]

\* _delta with the operands of the subtraction exchanged
_delta_swapped(curr_metrics, prev_metrics, field) ==
    IF field \notin DOMAIN curr_metrics \/ field \notin DOMAIN prev_metrics
    THEN NA
    ELSE PyInt(prev_metrics[field] - curr_metrics[field])

\* the nested helper _delta(field) with the two records it closes over
_delta(curr_metrics, prev_metrics, field) ==
    IF field \notin DOMAIN curr_metrics \/ field \notin DOMAIN prev_metrics
    THEN NA
    ELSE PyInt(curr_metrics[field] - prev_metrics[field])

\* (views_delta / prev_views) * 100.0, a float; division by zero raises
pct_of(views_delta, prev_views) ==
    IF prev_views = 0 THEN Raised
    ELSE IF prev_views > 0 THEN PyFloat(views_delta * 100, prev_views)
    ELSE PyFloat(0 - views_delta * 100, 0 - prev_views)

\* the guard written as >= 0
pct_guard_nonneg(prev_views) == prev_views >= 0

\* the guard of the percentage: prev_metrics["views"] > 0
pct_guard(prev_views) == prev_views > 0

\* the body of the loop for one video present in both snapshots
delta_entry_of(curr_metrics, prev_metrics) ==
    LET views_delta == _delta(curr_metrics, prev_metrics, "views")
        likes_delta == _delta(curr_metrics, prev_metrics, "likes")
        comments_delta == _delta(curr_metrics, prev_metrics, "comments")
        subs_delta == _delta(curr_metrics, prev_metrics, "subscribers")
        views_delta_pct ==
            IF IsInt(views_delta) /\ "views" \in DOMAIN prev_metrics
               /\ pct_guard(prev_metrics["views"])
            THEN pct_of(views_delta.n, prev_metrics["views"])
            ELSE NA
    IN  [f \in DeltaFields |->
            CASE f = "views_delta" -> views_delta
              [] f = "likes_delta" -> likes_delta
              [] f = "comments_delta" -> comments_delta
              [] f = "subscribers_delta" -> subs_delta
              [] f = "views_delta_pct" -> views_delta_pct]

\* whether compute_deltas_all takes its no-baseline branch
no_baseline(previous) ==
    previous = None \/ "videos" \notin DOMAIN previous

\* compute_deltas_all returning before it fills the no-baseline entries
compute_deltas_all_unfilled(previous, current) ==
    LET videos == get_videos(current) IN
    IF no_baseline(previous)
    THEN [videos |-> EmptyDict]
    ELSE LET prev_videos == get_videos(previous) IN
         [videos |-> [keys |-> videos.keys,
                      at |-> [k \in DictKeys(videos) |->
                                IF k \notin DictKeys(prev_videos)
                                THEN AllNA
                                ELSE delta_entry_of(videos.at[k],
                                                    prev_videos.at[k])]]]

compute_deltas_all(previous, current) ==
    LET videos == get_videos(current) IN
    IF no_baseline(previous)
    THEN [videos |-> [keys |-> videos.keys,
                      at |-> [k \in DictKeys(videos) |-> AllNA]]]
    ELSE LET prev_videos == get_videos(previous) IN
         [videos |-> [keys |-> videos.keys,
                      at |-> [k \in DictKeys(videos) |->
                                IF k \notin DictKeys(prev_videos)
                                THEN AllNA
                                ELSE delta_entry_of(videos.at[k],
                                                    prev_videos.at[k])]]]

----------------------------------------------------------------------------
(* Static tracked videos: nim_core.TRACKED_VIDEOS (its first entries) *)

TRACKED_VIDEOS ==
    [keys |-> <<"hasan_x8d6K399WW4", "boyboy_Sfrjpy5cJCs">>,
     at |-> [k \in {"hasan_x8d6K399WW4", "boyboy_Sfrjpy5cJCs"} |->
                IF k = "hasan_x8d6K399WW4"
                THEN [channel_name |-> "HasanAbi", video_id |-> "x8d6K399WW4",
                      label |-> "HasanAbi - we are Charlie Kirk"]
                ELSE [channel_name |-> "Boy Boy", video_id |-> "Sfrjpy5cJCs",
                      label |-> "BoyBoy - I snuck into a major arms dealer conference"]]]

\* the keys of the two tracked videos, and the key of a discovered one
KeyA == "hasan_x8d6K399WW4"

KeyB == "boyboy_Sfrjpy5cJCs"

KeyC == "channel_news_vid1"

----------------------------------------------------------------------------
(* Ranking helper: nim_core.get_top_videos_by_delta *)

\* delta_videos.get(video_key, {}).get(metric, "N/A")
delta_value_of(delta_videos, video_key, m) ==
    IF video_key \in DictKeys(delta_videos) /\ m \in DOMAIN delta_videos.at[video_key]
    THEN delta_videos.at[video_key][m]
    ELSE NA

\* the loop without its skip
skip_row_never(delta_value) == FALSE

\* whether the loop skips the video: isinstance(delta_value, str)
skip_row(delta_value) == IsStr(delta_value)

\* the priority with the registry ahead of the snapshot label
label_of_registry_first(video_key, metrics) ==
    IF video_key \in DictKeys(TRACKED_VIDEOS)
       /\ "label" \in DOMAIN TRACKED_VIDEOS.at[video_key]
       /\ TRACKED_VIDEOS.at[video_key]["label"] # ""
    THEN TRACKED_VIDEOS.at[video_key]["label"]
    ELSE IF "label" \in DOMAIN metrics /\ metrics["label"] # ""
         THEN metrics["label"]
         ELSE video_key

\* metrics.get("label") or TRACKED_VIDEOS.get(video_key, {}).get("label") or video_key
label_of(video_key, metrics) ==
    IF "label" \in DOMAIN metrics /\ metrics["label"] # ""
    THEN metrics["label"]
    ELSE IF video_key \in DictKeys(TRACKED_VIDEOS)
            /\ "label" \in DOMAIN TRACKED_VIDEOS.at[video_key]
            /\ TRACKED_VIDEOS.at[video_key]["label"] # ""
         THEN TRACKED_VIDEOS.at[video_key]["label"]
         ELSE video_key

\* the row appended for a video that is not skipped
row_of(video_key, metrics, delta_value) ==
    [video_key |-> video_key,
     channel_name |-> IF "channel_name" \in DOMAIN metrics
                      THEN metrics["channel_name"] ELSE "",
     video_id |-> IF "video_id" \in DOMAIN metrics THEN metrics["video_id"] ELSE "",
     label |-> label_of(video_key, metrics),
     current_value |-> IF "views" \in DOMAIN metrics THEN metrics["views"] ELSE 0,
     delta |-> delta_value]

\* the rows built by the loop over videos.items(), in insertion order
RECURSIVE build_rows(_, _, _, _)
build_rows(videos, delta_videos, m, i) ==
    IF i > Len(videos.keys) THEN <<>>
    ELSE LET video_key == videos.keys[i]
             delta_value == delta_value_of(delta_videos, video_key, m)
             rest == build_rows(videos, delta_videos, m, i + 1)
         IN  IF skip_row(delta_value) THEN rest
             ELSE <<row_of(video_key, videos.at[video_key], delta_value)>> \o rest

\* the order of a sort without reverse=True
sorts_before_asc(a, b) == NumLess(a.delta, b.delta)

\* the order of rows.sort(..., reverse=True): a before b
sorts_before(a, b) == NumLess(b.delta, a.delta)

\* one step of a stable sort: r goes after every row that does not sort after it
insert_row(sorted, r) ==
    LET ahead == {i \in 1..Len(sorted) : ~sorts_before(r, sorted[i])}
        p == IF ahead = {} THEN 0 ELSE CHOOSE i \in ahead : \A j \in ahead : j <= i
    IN  SubSeq(sorted, 1, p) \o <<r>> \o SubSeq(sorted, p + 1, Len(sorted))

\* rows.sort(key=lambda r: r["delta"], reverse=True): stable, descending
RECURSIVE sort_rows(_)
sort_rows(rows) ==
    IF rows = <<>> THEN <<>>
    ELSE insert_row(sort_rows(SubSeq(rows, 1, Len(rows) - 1)), rows[Len(rows)])

\* rows[:n]
slice_to(rows, n) ==
    IF n >= 0 THEN SubSeq(rows, 1, Min(n, Len(rows)))
    ELSE SubSeq(rows, 1, Max(0, Len(rows) + n))

get_top_videos_by_delta(current, deltas, m, n) ==
    LET videos == get_videos(current)
        delta_videos == get_videos(deltas)
        rows == build_rows(videos, delta_videos, m, 1)
    IN  slice_to(sort_rows(rows), n)

----------------------------------------------------------------------------
(* File I/O for the snapshot: nim_core.load_previous_data, save_current_data *)

\* a file that does not exist
Missing == [kind |-> "missing"]

\* a file whose text is not JSON
Corrupt == [kind |-> "corrupt"]

\* json.dump(value, f): the file holds the JSON text of value
json_dump(value) == [kind |-> "json", value |-> value]

\* os.path.exists, then json.load with JSONDecodeError turned into None
load_previous_data(file) ==
    IF file.kind = "missing" THEN None
    ELSE IF file.kind = "corrupt" THEN None
    ELSE file.value

\* videos of D not in E, put after those of E
RECURSIVE merged_videos(_, _, _)
merged_videos(E, D, i) ==
    IF i > Len(D.keys) THEN E
    ELSE merged_videos(IF D.keys[i] \in DictKeys(E) THEN E
                       ELSE dict_set(E, D.keys[i], D.at[D.keys[i]]),
                       D, i + 1)

\* a save that keeps the stored videos the new snapshot lacks
save_current_data_merging(file, snapshot) ==
    IF file.kind = "json" /\ "videos" \in DOMAIN file.value
    THEN json_dump([timestamp |-> snapshot.timestamp,
                    videos |-> merged_videos(get_videos(snapshot),
                                             file.value.videos, 1)])
    ELSE json_dump(snapshot)

\* open(DATA_FILE_PATH, "w") truncates the old file; json.dump writes the snapshot
save_current_data(file, snapshot) == json_dump(snapshot)

----------------------------------------------------------------------------
(* Option 5 run tracking: nim_cli.get_last_option5_run, set_last_option5_run *)

\* timedelta(hours=24), in seconds
GuardSeconds == 24 * 60 * 60

\* timedelta(hours=24), in ticks
GuardTicks == GuardSeconds * TicksPerSecond

\* datetime.now().isoformat(timespec="seconds"): the time cut to whole seconds
isoformat_seconds(t) == t \div TicksPerSecond

\* datetime.fromisoformat(text), as a clock value
fromisoformat(seconds) == seconds * TicksPerSecond

\* None when the file is missing or unreadable, else the stored time
get_last_option5_run(file) ==
    IF file.kind = "missing" THEN None
    ELSE IF file.kind = "corrupt" THEN None
    ELSE [at |-> fromisoformat(file.value.last_run)]

set_last_option5_run(t) == json_dump([last_run |-> isoformat_seconds(t)])

\* the guard with a window of 12 hours
within_guard_half(elapsed) == elapsed < GuardTicks \div 2

\* elapsed < timedelta(hours=24)
within_guard(elapsed) == elapsed < GuardTicks

\* whether option 5 skips: a last run is known and less than 24 hours old
guard_skips(last_run, t) ==
    last_run # None /\ within_guard(t - last_run.at)

----------------------------------------------------------------------------
(* Manual input (option 1): nim_cli.fetch_current_data_for_all_videos *)

\* a line typed by the operator: an integer, or text int() rejects
Typed(v) == [ok |-> TRUE, v |-> v]

NotANumber == [ok |-> FALSE, v |-> 0]

\* whether int(input()) raises ValueError somewhere in the entry
manual_entry_raises(typed) ==
    \E i \in 1..Len(TRACKED_VIDEOS.keys) : \E f \in NumericFields :
        ~typed[TRACKED_VIDEOS.keys[i]][f].ok

\* the snapshot of the manual entry when every line is an integer
fetch_current_data_for_all_videos(typed, t) ==
    [timestamp |-> isoformat_seconds(t),
     videos |->
        [keys |-> TRACKED_VIDEOS.keys,
         at |-> [k \in DictKeys(TRACKED_VIDEOS) |->
                   [channel_name |-> TRACKED_VIDEOS.at[k].channel_name,
                    video_id |-> TRACKED_VIDEOS.at[k].video_id,
                    views |-> typed[k]["views"].v,
                    likes |-> typed[k]["likes"].v,
                    comments |-> typed[k]["comments"].v,
                    subscribers |-> typed[k]["subscribers"].v,
                    label |-> TRACKED_VIDEOS.at[k].label]]]]

----------------------------------------------------------------------------
(* YouTube API helpers: nim_core.fetch_youtube_stats_for_videos *)

\* the API takes up to 50 IDs per request
BatchSize == 50

\* requests.get + raise_for_status: an HTTP error, another failure of the
\* transport (timeout, connection), or a body with items
HttpError == [kind |-> "http_error", items |-> <<>>]

TransportError == [kind |-> "transport_error", items |-> <<>>]

Ok(items) == [kind |-> "ok", items |-> items]

\* the entry built from one item of the response
stats_entry(item) ==
    [title |-> item.title,
     channel_title |-> item.channelTitle,
     views |-> IF "viewCount" \in DOMAIN item.statistics
               THEN item.statistics["viewCount"] ELSE 0,
     likes |-> IF "likeCount" \in DOMAIN item.statistics
               THEN item.statistics["likeCount"] ELSE 0,
     comments |-> IF "commentCount" \in DOMAIN item.statistics
                  THEN item.statistics["commentCount"] ELSE 0]

\* stats_by_id after the loop "for item in data.get("items", [])" has stored
\* the items from position i on: the last item of an ID is the one kept
add_items(stats_by_id, items, i) ==
    LET at(id) == {j \in i..Len(items) : items[j].id = id}
        last(id) == CHOOSE j \in at(id) : \A k \in at(id) : k <= j
    IN  [id \in DOMAIN stats_by_id \cup {items[j].id : j \in i..Len(items)} |->
            IF at(id) # {} THEN stats_entry(items[last(id)]) ELSE stats_by_id[id]]

\* the loop over the batches from batch b on; responses[b] answers batch b
RECURSIVE fetch_batches(_, _, _, _)
fetch_batches(video_ids, responses, b, stats_by_id) ==
    IF (b - 1) * BatchSize >= Len(video_ids)
    THEN [raised |-> FALSE, stats |-> stats_by_id]
    ELSE IF responses[b].kind = "http_error"
    THEN [raised |-> FALSE, stats |-> stats_by_id]
    ELSE IF responses[b].kind = "transport_error"
    THEN [raised |-> TRUE, stats |-> stats_by_id]
    ELSE fetch_batches(video_ids, responses, b + 1,
                       add_items(stats_by_id, responses[b].items, 1))

\* raises without a key or on a failure that is not an HTTPError
fetch_youtube_stats_for_videos(api_key, video_ids, responses) ==
    IF ~api_key THEN [raised |-> TRUE, stats |-> <<>>]
    ELSE fetch_batches(video_ids, responses, 1, <<>>)

----------------------------------------------------------------------------
(* Option 4: nim_core.fetch_current_snapshot_from_youtube *)

\* the entries of the snapshot, from the tracked video at position i on
RECURSIVE tracked_entries(_, _)
tracked_entries(stats_by_id, i) ==
    IF i < 1 THEN EmptyDict
    ELSE LET video_key == TRACKED_VIDEOS.keys[i]
             meta == TRACKED_VIDEOS.at[video_key]
             vid == meta.video_id
             before == tracked_entries(stats_by_id, i - 1)
         IN  IF vid \notin DOMAIN stats_by_id THEN before
             ELSE LET st == stats_by_id[vid] IN
                  dict_set(before, video_key,
                      [channel_name |-> IF st.channel_title # ""
                                        THEN st.channel_title ELSE meta.channel_name,
                       video_id |-> vid,
                       views |-> st.views,
                       likes |-> st.likes,
                       comments |-> st.comments,
                       subscribers |-> 0,
                       label |-> meta.label])

\* [raised, snapshot]: raises without a key or when the stats fetch raises
fetch_current_snapshot_from_youtube(api_key, responses, t) ==
    IF ~api_key THEN [raised |-> TRUE, snapshot |-> None]
    ELSE LET video_ids == [i \in 1..Len(TRACKED_VIDEOS.keys) |->
                              TRACKED_VIDEOS.at[TRACKED_VIDEOS.keys[i]].video_id]
             fetched == fetch_youtube_stats_for_videos(api_key, video_ids, responses)
         IN  IF fetched.raised THEN [raised |-> TRUE, snapshot |-> None]
             ELSE [raised |-> FALSE,
                   snapshot |-> [timestamp |-> isoformat_seconds(t),
                                 videos |-> tracked_entries(fetched.stats,
                                                Len(TRACKED_VIDEOS.keys))]]

----------------------------------------------------------------------------
(* Discovery: nim_core.build_snapshot_from_channels_and_keywords *)

\* the outcome of a discovery call: it raises, or it returns video IDs
Raises == [kind |-> "raise", ids |-> <<>>]

Found(ids) == [kind |-> "ok", ids |-> ids]

\* fetch_video_ids_for_keyword turns an HTTPError into an empty list
KeywordHttpError == [kind |-> "http_error", ids |-> <<>>]

\* the IDs already in all_video_ids
seen_ids(video_meta_list) ==
    {video_meta_list[i].video_id : i \in 1..Len(video_meta_list)}

\* the inner loop without its test "vid not in all_video_ids"
add_ids_unchecked(video_meta_list, ids, i, source_type, source_key, source_label) ==
    video_meta_list \o
    [j \in 1..(Len(ids) - i + 1) |->
        [video_id |-> ids[i + j - 1], source_type |-> source_type,
         source_key |-> source_key, source_label |-> source_label]]

\* the inner loop "for vid in ids": each new ID is attributed to this source
RECURSIVE add_ids(_, _, _, _, _, _)
add_ids(video_meta_list, ids, i, source_type, source_key, source_label) ==
    IF i > Len(ids) THEN video_meta_list
    ELSE add_ids(IF ids[i] \in seen_ids(video_meta_list) THEN video_meta_list
                 ELSE Append(video_meta_list,
                             [video_id |-> ids[i], source_type |-> source_type,
                              source_key |-> source_key, source_label |-> source_label]),
                 ids, i + 1, source_type, source_key, source_label)

\* the loop over channels_cfg, up to channel i; a call that raises is skipped
RECURSIVE channel_metas(_, _, _)
channel_metas(channels_cfg, channel_results, i) ==
    IF i < 1 THEN <<>>
    ELSE LET before == channel_metas(channels_cfg, channel_results, i - 1)
             ch == channels_cfg[i]
         IN  IF ch.channel_id = "" \/ channel_results[i].kind # "ok" THEN before
             ELSE add_ids(before, channel_results[i].ids, 1, "channel", ch.key, ch.label)

\* the loop over the queries of one keyword source, up to query q
RECURSIVE query_metas(_, _, _, _)
query_metas(video_meta_list, kw, query_results, q) ==
    IF q < 1 THEN video_meta_list
    ELSE LET before == query_metas(video_meta_list, kw, query_results, q - 1) IN
         IF query_results[q].kind # "ok" THEN before
         ELSE add_ids(before, query_results[q].ids, 1, "keyword", kw.key, kw.label)

\* the loop over keywords_cfg, up to keyword source j
RECURSIVE keyword_metas(_, _, _, _)
keyword_metas(video_meta_list, keywords_cfg, keyword_results, j) ==
    IF j < 1 THEN video_meta_list
    ELSE query_metas(keyword_metas(video_meta_list, keywords_cfg, keyword_results, j - 1),
                     keywords_cfg[j], keyword_results[j], Len(keywords_cfg[j].queries))

\* the entries of the snapshot, from video_meta_list up to position i
RECURSIVE discovered_entries(_, _, _)
discovered_entries(video_meta_list, stats_by_id, i) ==
    IF i < 1 THEN EmptyDict
    ELSE LET meta == video_meta_list[i]
             vid == meta.video_id
             before == discovered_entries(video_meta_list, stats_by_id, i - 1)
         IN  IF vid \notin DOMAIN stats_by_id THEN before
             ELSE LET st == stats_by_id[vid] IN
                  dict_set(before,
                      meta.source_type \o "_" \o meta.source_key \o "_" \o vid,
                      [channel_name |-> st.channel_title,
                       video_id |-> vid,
                       views |-> st.views,
                       likes |-> st.likes,
                       comments |-> st.comments,
                       subscribers |-> 0,
                       label |-> meta.source_label \o " - " \o st.title])

\* [raised, snapshot]; the IDs are fetched in one order of the set all_video_ids
build_snapshot_from_channels_and_keywords(api_key, channels_cfg, keywords_cfg, channel_results, keyword_results, responses, t) ==
    IF ~api_key THEN [raised |-> TRUE, snapshot |-> None]
    ELSE LET video_meta_list ==
                 keyword_metas(channel_metas(channels_cfg, channel_results,
                                             Len(channels_cfg)),
                               keywords_cfg, keyword_results, Len(keywords_cfg))
             all_video_ids_list ==
                 [i \in 1..Len(video_meta_list) |-> video_meta_list[i].video_id]
         IN  IF video_meta_list = <<>>
             THEN [raised |-> FALSE,
                   snapshot |-> [timestamp |-> isoformat_seconds(t),
                                 videos |-> EmptyDict]]
             ELSE LET fetched == fetch_youtube_stats_for_videos(
                                     api_key, all_video_ids_list, responses)
                  IN  IF fetched.raised THEN [raised |-> TRUE, snapshot |-> None]
                      ELSE [raised |-> FALSE,
                            snapshot |->
                               [timestamp |-> isoformat_seconds(t),
                                videos |-> discovered_entries(video_meta_list,
                                               fetched.stats, Len(video_meta_list))]]

\* not current_snapshot.get("videos")
no_videos(snapshot) == get_videos(snapshot).keys = <<>>

\* the fake deltas of option 2 and of the web page: views_delta is the views
fake_deltas_of(snapshot) ==
    LET videos == get_videos(snapshot) IN
    [videos |->
        [keys |-> videos.keys,
         at |-> [k \in DictKeys(videos) |->
                   [f \in DeltaFields |->
                       IF f = "views_delta"
                       THEN PyInt(IF "views" \in DOMAIN videos.at[k]
                                  THEN videos.at[k]["views"] ELSE 0)
                       ELSE IF f = "views_delta_pct" THEN NA
                       ELSE PyInt(0)]]]]

----------------------------------------------------------------------------
(* The handlers: nim_cli.main_menu (one menu choice) and nim_web.index *)

\* the number of rows every caller asks for
TopN == 16

\* an access to the snapshot store, in the order the handler makes them
Load == [op |-> "load", snapshot |-> None]

Save(snapshot) == [op |-> "save", snapshot |-> snapshot]

\* "none" when no snapshot was acquired, else whether it holds videos
Acquired(snapshot) == IF no_videos(snapshot) THEN "empty" ELSE "nonempty"

\* what a handler did: whether it raised, the values of its locals (None when
\* not assigned), its store accesses, and the run-guard file it leaves
Done(raised, previous, current, deltas, m, top, store_ops, acquired, computed, built, guard) ==
    [raised |-> raised, previous |-> previous, current |-> current,
     deltas |-> deltas, metric |-> m, top |-> top, store_ops |-> store_ops,
     acquired |-> acquired, computed |-> computed, built |-> built,
     guard |-> guard]

\* option 1 saving the entry before it loads the baseline
option1_save_first(file, guard_file, typed, t) ==
    IF manual_entry_raises(typed)
    THEN Done(TRUE, None, None, None, "", <<>>, <<>>, "none", FALSE, FALSE,
              guard_file)
    ELSE LET current == fetch_current_data_for_all_videos(typed, t)
             previous == current
             deltas == compute_deltas_all(previous, current)
             top == get_top_videos_by_delta(current, deltas, "views_delta", TopN)
         IN  Done(FALSE, previous, current, deltas, "views_delta", top,
                  <<Save(current), Load>>, Acquired(current), TRUE, FALSE,
                  guard_file)

\* Option 1: load, manual entry, deltas, ranking, display, save
option1(file, guard_file, typed, t) ==
    LET previous == load_previous_data(file) IN
    IF manual_entry_raises(typed)
    THEN Done(TRUE, previous, None, None, "", <<>>, <<Load>>, "none", FALSE,
              FALSE, guard_file)
    ELSE LET current == fetch_current_data_for_all_videos(typed, t)
             deltas == compute_deltas_all(previous, current)
             top == get_top_videos_by_delta(current, deltas, "views_delta", TopN)
         IN  Done(FALSE, previous, current, deltas, "views_delta", top,
                  <<Load, Save(current)>>, Acquired(current), TRUE, FALSE,
                  guard_file)

\* Option 2: load and show the last snapshot ranked by its views
option2(file, guard_file) ==
    LET snapshot == load_previous_data(file) IN
    IF snapshot = None \/ no_videos(snapshot)
    THEN Done(FALSE, None, snapshot, None, "", <<>>, <<Load>>, "none", FALSE,
              FALSE, guard_file)
    ELSE LET fake_deltas == fake_deltas_of(snapshot)
             top == get_top_videos_by_delta(snapshot, fake_deltas, "views_delta", TopN)
         IN  Done(FALSE, None, snapshot, fake_deltas, "views_delta", top,
                  <<Load>>, "none", FALSE, FALSE, guard_file)

\* Option 3 and the invalid choice touch nothing
no_effect(guard_file) ==
    Done(FALSE, None, None, None, "", <<>>, <<>>, "none", FALSE, FALSE, guard_file)

\* Option 4: load, fetch the tracked videos, deltas, ranking, display, save
option4(file, guard_file, api_key, responses, t) ==
    LET previous == load_previous_data(file)
        fetched == fetch_current_snapshot_from_youtube(api_key, responses, t)
    IN  IF fetched.raised
        THEN Done(TRUE, previous, None, None, "", <<>>, <<Load>>, "none", FALSE,
                  FALSE, guard_file)
        ELSE LET current == fetched.snapshot
                 deltas == compute_deltas_all(previous, current)
                 top == get_top_videos_by_delta(current, deltas, "views_delta", TopN)
             IN  Done(FALSE, previous, current, deltas, "views_delta", top,
                      <<Load, Save(current)>>, Acquired(current), TRUE, FALSE,
                      guard_file)

\* option 5 setting the guard's time also when the build found no videos
option5_marking_empty(file, guard_file, api_key, channels_cfg, keywords_cfg, channel_results, keyword_results, responses, t) ==
    IF guard_skips(get_last_option5_run(guard_file), t)
    THEN Done(FALSE, None, None, None, "", <<>>, <<>>, "none", FALSE, FALSE,
              guard_file)
    ELSE LET built == build_snapshot_from_channels_and_keywords(
                          api_key, channels_cfg, keywords_cfg, channel_results,
                          keyword_results, responses, t)
         IN  IF built.raised
             THEN Done(TRUE, None, None, None, "", <<>>, <<>>, "none", FALSE,
                       TRUE, guard_file)
             ELSE IF no_videos(built.snapshot)
             THEN Done(FALSE, None, built.snapshot, None, "", <<>>, <<>>, "empty",
                       FALSE, TRUE, set_last_option5_run(t))
             ELSE LET current == built.snapshot
                      previous == load_previous_data(file)
                      deltas == compute_deltas_all(previous, current)
                      top == get_top_videos_by_delta(current, deltas,
                                                     "views_delta_pct", TopN)
                  IN  Done(FALSE, previous, current, deltas, "views_delta_pct",
                           top, <<Load, Save(current)>>, "nonempty", TRUE, TRUE,
                           set_last_option5_run(t))

\* Option 5: the 24h guard, the discovery build, then (with videos) load,
\* deltas, ranking by percentage, display, save and the guard's new time
option5(file, guard_file, api_key, channels_cfg, keywords_cfg, channel_results, keyword_results, responses, t) ==
    IF guard_skips(get_last_option5_run(guard_file), t)
    THEN Done(FALSE, None, None, None, "", <<>>, <<>>, "none", FALSE, FALSE,
              guard_file)
    ELSE LET built == build_snapshot_from_channels_and_keywords(
                          api_key, channels_cfg, keywords_cfg, channel_results,
                          keyword_results, responses, t)
         IN  IF built.raised
             THEN Done(TRUE, None, None, None, "", <<>>, <<>>, "none", FALSE,
                       TRUE, guard_file)
             ELSE IF no_videos(built.snapshot)
             THEN Done(FALSE, None, built.snapshot, None, "", <<>>, <<>>, "empty",
                       FALSE, TRUE, guard_file)
             ELSE LET current == built.snapshot
                      previous == load_previous_data(file)
                      deltas == compute_deltas_all(previous, current)
                      top == get_top_videos_by_delta(current, deltas,
                                                     "views_delta_pct", TopN)
                  IN  Done(FALSE, previous, current, deltas, "views_delta_pct",
                           top, <<Load, Save(current)>>, "nonempty", TRUE, TRUE,
                           set_last_option5_run(t))

\* the web page saving the snapshot again when it was served from the store
index_resaving(file, guard_file, api_key, channels_cfg, keywords_cfg, channel_results, keyword_results, responses, t) ==
    LET loaded == load_previous_data(file) IN
    IF loaded = None \/ no_videos(loaded)
    THEN LET built == build_snapshot_from_channels_and_keywords(
                          api_key, channels_cfg, keywords_cfg, channel_results,
                          keyword_results, responses, t)
         IN  IF built.raised
             THEN Done(TRUE, None, None, None, "", <<>>, <<Load>>, "none", FALSE,
                       TRUE, guard_file)
             ELSE IF no_videos(built.snapshot)
             THEN Done(FALSE, None, built.snapshot, None, "", <<>>, <<Load>>,
                       "empty", FALSE, TRUE, guard_file)
             ELSE LET snapshot == built.snapshot
                      fake_deltas == fake_deltas_of(snapshot)
                  IN  Done(FALSE, None, snapshot, fake_deltas, "views_delta",
                           get_top_videos_by_delta(snapshot, fake_deltas,
                                                   "views_delta", TopN),
                           <<Load, Save(snapshot)>>, "nonempty", FALSE, TRUE,
                           guard_file)
    ELSE LET fake_deltas == fake_deltas_of(loaded) IN
         Done(FALSE, None, loaded, fake_deltas, "views_delta",
              get_top_videos_by_delta(loaded, fake_deltas, "views_delta", TopN),
              <<Load, Save(loaded)>>, "none", FALSE, FALSE, guard_file)

\* The web page: load; without videos build and save what was found; rank
\* the snapshot by its views
index(file, guard_file, api_key, channels_cfg, keywords_cfg, channel_results, keyword_results, responses, t) ==
    LET loaded == load_previous_data(file) IN
    IF loaded = None \/ no_videos(loaded)
    THEN LET built == build_snapshot_from_channels_and_keywords(
                          api_key, channels_cfg, keywords_cfg, channel_results,
                          keyword_results, responses, t)
         IN  IF built.raised
             THEN Done(TRUE, None, None, None, "", <<>>, <<Load>>, "none", FALSE,
                       TRUE, guard_file)
             ELSE IF no_videos(built.snapshot)
             THEN Done(FALSE, None, built.snapshot, None, "", <<>>, <<Load>>,
                       "empty", FALSE, TRUE, guard_file)
             ELSE LET snapshot == built.snapshot
                      fake_deltas == fake_deltas_of(snapshot)
                  IN  Done(FALSE, None, snapshot, fake_deltas, "views_delta",
                           get_top_videos_by_delta(snapshot, fake_deltas,
                                                   "views_delta", TopN),
                           <<Load, Save(snapshot)>>, "nonempty", FALSE, TRUE,
                           guard_file)
    ELSE LET fake_deltas == fake_deltas_of(loaded) IN
         Done(FALSE, None, loaded, fake_deltas, "views_delta",
              get_top_videos_by_delta(loaded, fake_deltas, "views_delta", TopN),
              <<Load>>, "none", FALSE, FALSE, guard_file)

\* the snapshot file after the handler's store accesses, from access i on
RECURSIVE file_after(_, _, _)
file_after(file, store_ops, i) ==
    IF i > Len(store_ops) THEN file
    ELSE file_after(IF store_ops[i].op = "save"
                    THEN save_current_data(file, store_ops[i].snapshot)
                    ELSE file,
                    store_ops, i + 1)

\* the snapshot last handed to save_current_data
RECURSIVE saved_after(_, _, _)
saved_after(saved, store_ops, i) ==
    IF i > Len(store_ops) THEN saved
    ELSE saved_after(IF store_ops[i].op = "save" THEN store_ops[i].snapshot
                     ELSE saved,
                     store_ops, i + 1)

----------------------------------------------------------------------------
(* The environment: what the operator types, what the API answers, the clock *)

\* no time recorded yet
NoTime == 0 - 1

\* the moments the clock is looked at: each whole day, a second before it
\* and a tick after it
TimePoints ==
    {t \in {d * GuardTicks + e : d \in 0..MaxDays,
                                 e \in {0 - TicksPerSecond, 0, 1}} :
        t >= 0}

\* the operator types the same count on every line, or mistypes one line
ManualInputs ==
    {[k \in DictKeys(TRACKED_VIDEOS) |-> [f \in NumericFields |-> Typed(MaxCount)]]}
    \cup {[k \in DictKeys(TRACKED_VIDEOS) |->
             [f \in NumericFields |->
                IF k = KeyB /\ f = "likes" THEN NotANumber ELSE Typed(1)]]}

\* an item of a videos.list response
ItemFor(id) ==
    [id |-> id, title |-> "title of " \o id, channelTitle |-> "channel of " \o id,
     statistics |-> [viewCount |-> 1, likeCount |-> 1]]

\* the answers to the one batch asking for ids: a failure, or every video
\* but the last when there are several
StatsResponses(ids) ==
    {<<HttpError>>, <<TransportError>>,
     <<Ok([i \in 1..(IF Len(ids) > 1 THEN Len(ids) - 1 ELSE Len(ids)) |->
             ItemFor(ids[i])])>>}

TrackedIds ==
    [i \in 1..Len(TRACKED_VIDEOS.keys) |->
        TRACKED_VIDEOS.at[TRACKED_VIDEOS.keys[i]].video_id]

\* channels.json and keywords.json: one source each
ChannelsConfig == <<[key |-> "news", channel_id |-> "UCnews", label |-> "News"]>>

KeywordsConfig == <<[key |-> "ai", queries |-> <<"ai news">>, label |-> "AI"]>>

\* what the discovery calls answer, one per configured channel
ChannelResults(channels_cfg) ==
    [1..Len(channels_cfg) -> {Raises, Found(<<"vid1">>)}]

\* and one per query of each configured keyword source
KeywordResults(keywords_cfg) ==
    [1..Len(keywords_cfg) ->
        [1..1 -> {Raises, KeywordHttpError, Found(<<"vid1", "vid2">>)}]]

\* the IDs the build asks the stats of
discovered_ids(channels_cfg, keywords_cfg, channel_results, keyword_results) ==
    LET video_meta_list ==
            keyword_metas(channel_metas(channels_cfg, channel_results,
                                        Len(channels_cfg)),
                          keywords_cfg, keyword_results, Len(keywords_cfg))
    IN  [i \in 1..Len(video_meta_list) |-> video_meta_list[i].video_id]

----------------------------------------------------------------------------
(* The state machine of the CLI process and the web handler *)

NoRun ==
    [choice |-> "none", raised |-> FALSE, store_log |-> <<>>, acquired |-> "none",
     computed |-> FALSE, built |-> FALSE, guard_written |-> FALSE,
     baseline |-> None, gap_any |-> NoTime, gap_ok |-> NoTime]

\* no pipeline has run
PureIdle ==
    /\ phase = "idle"
    /\ previous_snapshot = None
    /\ current_snapshot = None
    /\ deltas_all = None
    /\ metric = ""
    /\ top_n = TopN
    /\ top_list = <<>>

\* no API helper is exercised on its own
ApiIdle ==
    /\ api_phase = "idle"
    /\ call_video_ids = <<>>
    /\ call_channels_cfg = <<>>
    /\ call_keywords_cfg = <<>>
    /\ answers = <<>>
    /\ returned = None

\* the process is at its first menu prompt; the files are as it finds them
Init ==
    /\ PureIdle
    /\ ApiIdle
    /\ pc = "menu"
    /\ \E found \in {Missing, Corrupt} :
         data_file = found /\ last_run_file = found
    /\ now = 0
    /\ YOUTUBE_API_KEY \in BOOLEAN
    /\ run = NoRun
    /\ last_saved = None
    /\ last_build5 = NoTime
    /\ last_ok_build5 = NoTime

\* the state after a handler that did R at time t
Handle(choice, R, t) ==
    /\ pc' = IF choice = "web" THEN pc
             ELSE IF R.raised THEN "crashed"
             ELSE IF choice = "3" THEN "exited"
             ELSE "menu"
    /\ data_file' = file_after(data_file, R.store_ops, 1)
    /\ last_saved' = saved_after(last_saved, R.store_ops, 1)
    /\ last_run_file' = R.guard
    /\ now' = t
    /\ phase' = "idle"
    /\ previous_snapshot' = R.previous
    /\ current_snapshot' = R.current
    /\ deltas_all' = R.deltas
    /\ metric' = R.metric
    /\ top_n' = TopN
    /\ top_list' = R.top
    /\ last_build5' = IF choice = "5" /\ R.built THEN now ELSE last_build5
    /\ last_ok_build5' =
          IF choice = "5" /\ R.guard # last_run_file THEN now ELSE last_ok_build5
    /\ run' = [choice |-> choice,
               raised |-> R.raised,
               store_log |-> [i \in 1..Len(R.store_ops) |-> R.store_ops[i].op],
               acquired |-> R.acquired,
               computed |-> R.computed,
               built |-> R.built,
               guard_written |-> R.guard # last_run_file,
               baseline |-> last_saved,
               gap_any |-> IF choice = "5" /\ R.built /\ last_build5 # NoTime
                           THEN now - last_build5 ELSE NoTime,
               gap_ok |-> IF choice = "5" /\ R.built /\ last_ok_build5 # NoTime
                          THEN now - last_ok_build5 ELSE NoTime]
    /\ UNCHANGED YOUTUBE_API_KEY
    /\ UNCHANGED api_vars

Option1 ==
    /\ pc = "menu"
    /\ \E typed \in ManualInputs :
         Handle("1", option1(data_file, last_run_file, typed, now), now)

Option2 ==
    /\ pc = "menu"
    /\ Handle("2", option2(data_file, last_run_file), now)

Option3 ==
    /\ pc = "menu"
    /\ Handle("3", no_effect(last_run_file), now)

Option4 ==
    /\ pc = "menu"
    /\ \E responses \in StatsResponses(TrackedIds) :
         Handle("4", option4(data_file, last_run_file, YOUTUBE_API_KEY,
                             responses, now), now)

\* option 5 while the guard holds: no call is made, so nothing answers
Option5Guarded ==
    /\ pc = "menu"
    /\ guard_skips(get_last_option5_run(last_run_file), now)
    /\ Handle("5", option5(data_file, last_run_file, YOUTUBE_API_KEY,
                          ChannelsConfig, KeywordsConfig, <<>>, <<>>, <<>>, now), now)

\* option 5 past the guard: the discovery and stats calls answer
Option5 ==
    /\ pc = "menu"
    /\ ~guard_skips(get_last_option5_run(last_run_file), now)
    /\ \E channel_results \in ChannelResults(ChannelsConfig),
          keyword_results \in KeywordResults(KeywordsConfig) :
       \E responses \in StatsResponses(discovered_ids(ChannelsConfig, KeywordsConfig,
                                           channel_results, keyword_results)) :
         Handle("5", option5(data_file, last_run_file, YOUTUBE_API_KEY,
                             ChannelsConfig, KeywordsConfig, channel_results,
                             keyword_results, responses, now), now)

InvalidOption ==
    /\ pc = "menu"
    /\ Handle("invalid", no_effect(last_run_file), now)

\* the web page when the stored snapshot has videos: no call is made
WebIndexStored ==
    /\ ~(load_previous_data(data_file) = None
         \/ no_videos(load_previous_data(data_file)))
    /\ Handle("web", index(data_file, last_run_file, YOUTUBE_API_KEY,
                          ChannelsConfig, KeywordsConfig, <<>>, <<>>, <<>>, now), now)

\* the web page when it has to build a snapshot
WebIndex ==
    /\ (load_previous_data(data_file) = None
        \/ no_videos(load_previous_data(data_file)))
    /\ \E channel_results \in ChannelResults(ChannelsConfig),
          keyword_results \in KeywordResults(KeywordsConfig) :
       \E responses \in StatsResponses(discovered_ids(ChannelsConfig, KeywordsConfig,
                                           channel_results, keyword_results)) :
         Handle("web", index(data_file, last_run_file, YOUTUBE_API_KEY,
                             ChannelsConfig, KeywordsConfig, channel_results,
                             keyword_results, responses, now), now)

\* time passes
Tick ==
    /\ \E t \in TimePoints : t > now /\ now' = t
    /\ UNCHANGED <<pure_vars, pc, data_file, last_run_file, YOUTUBE_API_KEY, run,
                   last_saved, last_build5, last_ok_build5>>
    /\ UNCHANGED api_vars

\* the operator starts the program again
Restart ==
    /\ pc \in {"crashed", "exited"}
    /\ pc' = "menu"
    /\ UNCHANGED <<pure_vars, data_file, last_run_file, now, YOUTUBE_API_KEY, run,
                   last_saved, last_build5, last_ok_build5>>
    /\ UNCHANGED api_vars

Next ==
    \/ Option1
    \/ Option2
    \/ Option3
    \/ Option4
    \/ Option5Guarded
    \/ Option5
    \/ InvalidOption
    \/ WebIndexStored
    \/ WebIndex
    \/ Tick
    \/ Restart

Spec == Init /\ [][Next]_vars

\* the CLI process and the files, while only the pure pipeline is exercised
MainIdle ==
    /\ pc = "menu"
    /\ data_file = Missing
    /\ last_run_file = Missing
    /\ now = 0
    /\ YOUTUBE_API_KEY = TRUE
    /\ run = NoRun
    /\ last_saved = None
    /\ last_build5 = NoTime
    /\ last_ok_build5 = NoTime

----------------------------------------------------------------------------
(* Properties of the handlers, checked under Spec *)

\* the menu choices that acquire a snapshot and run the pipeline
PipelineChoices == {"1", "4", "5"}

\* C1: whenever the snapshot a pathway acquired holds zero entities, the run
\* performs no save and the persisted snapshot after the run equals the
\* persisted snapshot before it.
C1_EmptyAcquisitionKeepsStore ==
    [][run'.acquired = "empty"
       => /\ "save" \notin Range(run'.store_log)
          /\ data_file' = data_file]_vars

\* C2: for every menu choice other than exit and every failure of its
\* collaborators the loop does not terminate abnormally: the choice does not
\* raise out of main_menu and control is back at the menu prompt.
C2_LoopSurvivesFailures ==
    run.choice \in {"1", "2", "4", "5", "invalid"}
    => (~run.raised /\ pc # "crashed")

\* C3 as claimed: two executions of the discovery build from option 5 are
\* always at least 24 hours apart.
C3_BuildsADayApart ==
    run.gap_any = NoTime \/ run.gap_any >= GuardTicks

\* C3 as amended: an option-5 discovery build that follows an option-5 run which
\* fetched at least one entity and wrote the run guard starts more than 24 hours
\* minus one second after that run's build.
C3_BuildAfterGuardedRun ==
    run.gap_ok = NoTime \/ run.gap_ok > GuardTicks - TicksPerSecond

\* a build started less than 24 hours after the build of a run that wrote the
\* guard: the guard holds the time cut to the second
C3_Witness ==
    /\ run.choice = "5"
    /\ run.built
    /\ run.gap_ok # NoTime
    /\ run.gap_ok < GuardTicks
    /\ run.guard_written

\* C4: the previous snapshot a run of option 1, 4 or 5 passes to
\* compute_deltas_all is the snapshot most recently saved by an earlier run,
\* None if none was saved: a save replaces the record, nothing else changes it.
C4_PreviousIsLastSaved ==
    (run.choice \in PipelineChoices /\ run.computed)
    => previous_snapshot = run.baseline

\* option 5 ran on the snapshot option 1 or 4 stored, and replaced it by one
\* with other videos
C4_Witness ==
    /\ run.choice = "5"
    /\ run.computed
    /\ run.baseline # None
    /\ previous_snapshot = run.baseline
    /\ KeyA \in DictKeys(get_videos(previous_snapshot))
    /\ data_file = json_dump(current_snapshot)
    /\ KeyA \notin DictKeys(get_videos(current_snapshot))

\* C5: within one run the snapshot store is loaded at most once and saved at
\* most once, and a save comes after the load, as the last store access.
C5_LoadOnceSaveLast ==
    LET log == run.store_log
        loads == {i \in 1..Len(log) : log[i] = "load"}
        saves == {i \in 1..Len(log) : log[i] = "save"}
    IN  /\ Cardinality(loads) <= 1
        /\ Cardinality(saves) <= 1
        /\ \A i \in saves : i = Len(log) /\ \E j \in loads : j < i

\* a web request that loaded nothing usable, built a snapshot and saved it
C5_Witness ==
    /\ run.choice = "web"
    /\ run.store_log = <<"load", "save">>
    /\ data_file = json_dump(current_snapshot)

\* C15: the run-guard timestamp is written only by an option-5 run that fetched
\* at least one entity and saved the snapshot in that same run; a run skipped
\* by the guard, a run that yields zero entities, and options 1, 2 and 4 leave
\* the run-guard state unchanged.
C15_GuardWrittenOnlyBySavingOption5 ==
    [][/\ last_run_file' # last_run_file
          => /\ run'.choice = "5"
             /\ run'.acquired = "nonempty"
             /\ "save" \in Range(run'.store_log)
             /\ data_file' = json_dump(current_snapshot')
             /\ ~no_videos(current_snapshot')
       /\ (\/ run'.choice \in {"1", "2", "4"}
           \/ (run'.choice = "5" /\ ~run'.built)
           \/ (run'.choice = "5" /\ run'.acquired = "empty"))
          => last_run_file' = last_run_file]_vars

\* option 5 has written the guard a full day into the run, over the snapshot it
\* saved
C15_Witness ==
    /\ run.choice = "5"
    /\ run.guard_written
    /\ now >= GuardTicks
    /\ last_run_file = set_last_option5_run(now)
    /\ data_file = json_dump(current_snapshot)
    /\ ~no_videos(current_snapshot)

\* whether the snapshot store holds a snapshot with at least one entity
HasStoredVideos(file) ==
    load_previous_data(file) # None /\ ~no_videos(load_previous_data(file))

\* a step that handles menu choice 2
Option2Step == run'.choice = "2" /\ now' = now /\ pc' = pc

\* a step that serves one web index request
WebRequestStep == run'.choice = "web" /\ now' = now /\ pc' = pc

\* C16: option 2 never writes the snapshot store or the run guard; a web index
\* request that finds a stored snapshot with at least one entity neither calls
\* the provider nor writes the store; the web request writes the store only
\* when no non-empty snapshot was stored and the build returned an entity.
C16_ViewOnlyLeavesStateAlone ==
    [][/\ Option2Step
          => /\ "save" \notin Range(run'.store_log)
             /\ data_file' = data_file
             /\ last_run_file' = last_run_file
       /\ (WebRequestStep /\ HasStoredVideos(data_file))
          => /\ ~run'.built
             /\ "save" \notin Range(run'.store_log)
             /\ data_file' = data_file
       /\ (WebRequestStep /\ ("save" \in Range(run'.store_log)
                               \/ data_file' # data_file))
          => /\ ~HasStoredVideos(data_file)
             /\ run'.built
             /\ run'.acquired = "nonempty"
             /\ ~no_videos(current_snapshot')]_vars

\* a web request served from the stored snapshot: one load, no build, a
\* ranking of what was stored
C16_Witness ==
    /\ run.choice = "web"
    /\ ~run.built
    /\ run.store_log = <<"load">>
    /\ HasStoredVideos(data_file)
    /\ load_previous_data(data_file) = current_snapshot
    /\ top_list # <<>>

----------------------------------------------------------------------------
(* Inputs of the pure pipeline *)

\* a count as entered by the operator or reported by the API (int() accepts a sign)
CountVals == {0 - 1} \cup (0..MaxCount)

\* likes, comments and subscribers
OtherVals == 0..1

\* a Metrics record holding the numeric fields of nums
metrics_with(video_key, nums) ==
    [f \in DOMAIN nums \cup {"channel_name", "video_id", "label"} |->
        IF f \in DOMAIN nums THEN nums[f]
        ELSE IF f = "label" THEN "label of " \o video_key
        ELSE IF f = "video_id" THEN "id of " \o video_key
        ELSE "channel of " \o video_key]

\* every assignment of counts to a subset of the numeric fields
NumericRecords ==
    UNION {{m \in [S -> CountVals \cup OtherVals] :
              \A f \in S : f # "views" => m[f] \in OtherVals} :
           S \in SUBSET NumericFields}

\* a complete record with the given views
FullRecord(views) ==
    [f \in NumericFields |-> IF f = "views" THEN views
                             ELSE IF f = "subscribers" THEN 0 ELSE 1]

\* the videos mappings the delta engine is run on: KeyA with any record,
\* KeyB with a complete one, each present or not
DeltaVideos ==
    LET As == {EmptyDict} \cup
              {dict_set(EmptyDict, KeyA, metrics_with(KeyA, m)) : m \in NumericRecords}
    IN  As \cup {dict_set(D, KeyB, metrics_with(KeyB, FullRecord(v))) :
                    D \in As, v \in {0, MaxCount}}

\* what load_previous_data can hand to compute_deltas_all
PreviousInputs ==
    {None, [timestamp |-> 0]} \cup {[timestamp |-> 0, videos |-> D] : D \in DeltaVideos}

CurrentInputs == {[timestamp |-> 1, videos |-> D] : D \in DeltaVideos}

InitDelta ==
    /\ phase = "input"
    /\ previous_snapshot \in PreviousInputs
    /\ current_snapshot \in CurrentInputs
    /\ deltas_all = None
    /\ metric = "views_delta"
    /\ top_n = 0
    /\ top_list = <<>>
    /\ MainIdle
    /\ ApiIdle

\* deltas_all = compute_deltas_all(previous_snapshot, current_snapshot)
ComputeDeltas ==
    /\ phase = "input"
    /\ deltas_all' = compute_deltas_all(previous_snapshot, current_snapshot)
    /\ phase' = "deltas"
    /\ UNCHANGED <<previous_snapshot, current_snapshot, metric, top_n, top_list>>
    /\ UNCHANGED <<main_vars, api_vars>>

NextDelta == ComputeDeltas

SpecDelta == InitDelta /\ [][NextDelta]_vars

----------------------------------------------------------------------------
(* Inputs of the ranker *)

\* the values a Delta field can hold
CellValues == {NA, PyFloat(1, 2)} \cup {PyInt(i) : i \in (0 - 1)..MaxDelta}

\* the entries a DeltaSet can hold for one video when ranking by m: none (the
\* key is missing), an entry without the field m, an entry with m set
RankEntries(m) ==
    {None, [f \in DeltaFields \ {m} |-> PyInt(0)]}
    \cup {[f \in DeltaFields |-> IF f = m THEN v ELSE PyInt(0)] : v \in CellValues}

\* every sequence of distinct keys
KeyOrders ==
    LET Keys == {KeyA, KeyB, KeyC} IN
    UNION {{q \in [1..n -> Keys] : \A i, j \in 1..n : i # j => q[i] # q[j]} :
           n \in 0..Cardinality(Keys)}

RankCurrents ==
    {[timestamp |-> 1,
      videos |-> [keys |-> q,
                  at |-> [k \in Range(q) |-> metrics_with(k, FullRecord(1))]]] :
     q \in KeyOrders}

\* the DeltaSets over the videos of current
RankDeltas(current, m) ==
    LET videos == get_videos(current) IN
    {LET Present(k) == c[k] # None IN
     [videos |-> [keys |-> SelectSeq(videos.keys, Present),
                  at |-> [k \in {x \in DictKeys(videos) : Present(x)} |-> c[k]]]] :
     c \in [DictKeys(videos) -> RankEntries(m)]}

InitRank ==
    /\ phase = "deltas"
    /\ previous_snapshot = None
    /\ current_snapshot \in RankCurrents
    /\ metric \in DeltaFields
    /\ deltas_all \in RankDeltas(current_snapshot, metric)
    /\ top_n \in 1..MaxN
    /\ top_list = <<>>
    /\ MainIdle
    /\ ApiIdle

\* top_list = get_top_videos_by_delta(current_snapshot, deltas_all, metric, top_n)
Rank ==
    /\ phase = "deltas"
    /\ top_list' = get_top_videos_by_delta(current_snapshot, deltas_all, metric, top_n)
    /\ phase' = "ranked"
    /\ UNCHANGED <<previous_snapshot, current_snapshot, deltas_all, metric, top_n>>
    /\ UNCHANGED <<main_vars, api_vars>>

NextRank == Rank

SpecRank == InitRank /\ [][NextRank]_vars

----------------------------------------------------------------------------
(* Inputs of the label resolution *)

\* the label a Metrics record can carry: none (the field is missing), the empty
\* string, a title of its own
LabelVariants == {"missing", "empty", "own"}

\* a complete Metrics record whose label is as the variant says
metrics_labelled(video_key, variant) ==
    LET full == metrics_with(video_key, FullRecord(1)) IN
    IF variant = "missing"
    THEN [f \in DOMAIN full \ {"label"} |-> full[f]]
    ELSE [full EXCEPT !["label"] = IF variant = "empty" THEN "" ELSE @]

LabelCurrents ==
    {[timestamp |-> 1,
      videos |-> [keys |-> q,
                  at |-> [k \in Range(q) |-> metrics_labelled(k, c[k])]]] :
     q \in KeyOrders, c \in [{KeyA, KeyB, KeyC} -> LabelVariants]}

\* a DeltaSet with views_delta absent or set for each video of current
LabelDeltas(current) ==
    LET videos == get_videos(current) IN
    {[videos |-> [keys |-> videos.keys,
                  at |-> [k \in DictKeys(videos) |->
                             [f \in DeltaFields |->
                                 IF f = "views_delta" THEN c[k] ELSE NA]]]] :
     c \in [DictKeys(videos) -> {NA} \cup {PyInt(i) : i \in 0..MaxDelta}]}

InitLabel ==
    /\ phase = "deltas"
    /\ previous_snapshot = None
    /\ current_snapshot \in LabelCurrents
    /\ metric = "views_delta"
    /\ deltas_all \in LabelDeltas(current_snapshot)
    /\ top_n \in {1, MaxN}
    /\ top_list = <<>>
    /\ MainIdle
    /\ ApiIdle

NextLabel == Rank

SpecLabel == InitLabel /\ [][NextLabel]_vars

----------------------------------------------------------------------------
(* A load of the stored record followed by the delta engine *)

\* a file whose bytes are not UTF-8 text: reading it raises UnicodeDecodeError,
\* which is not a JSONDecodeError
Undecodable == [kind |-> "undecodable"]

\* JSON texts that are valid but hold no snapshot: a number, an array
JsonNumber == [json |-> "number"]

JsonArray == [json |-> "array"]

\* whether load_previous_data raises: only JSONDecodeError is caught
load_previous_data_raises(file) == file.kind = "undecodable"

\* whether compute_deltas_all raises on what was loaded: "videos" not in a
\* number is a TypeError, and so is video_key not in None when the record
\* holds "videos": null
compute_deltas_all_raises(previous, current) ==
    \/ previous = JsonNumber
    \/ /\ previous # None
       /\ "videos" \in DOMAIN previous
       /\ previous.videos = None
       /\ get_videos(current).keys # <<>>

\* the states the stored record can be in
StoredRecords ==
    {Missing, Corrupt, Undecodable}
    \cup {json_dump(v) : v \in {None, JsonNumber, JsonArray, [timestamp |-> 0],
                                [timestamp |-> 0, videos |-> None]}}
    \cup {json_dump([timestamp |-> 0,
                     videos |-> dict_set(EmptyDict, KeyA,
                                         metrics_with(KeyA, FullRecord(v)))]) :
          v \in 0..MaxCount}

InitLoad ==
    /\ phase = "stored"
    /\ previous_snapshot = None
    /\ current_snapshot \in CurrentInputs
    /\ deltas_all = None
    /\ metric = "views_delta"
    /\ top_n = 0
    /\ top_list = <<>>
    /\ pc = "menu"
    /\ data_file \in StoredRecords
    /\ last_run_file = Missing
    /\ now = 0
    /\ YOUTUBE_API_KEY = TRUE
    /\ run = NoRun
    /\ last_saved = None
    /\ last_build5 = NoTime
    /\ last_ok_build5 = NoTime
    /\ ApiIdle

\* previous_snapshot = load_previous_data()
LoadPrevious ==
    /\ phase = "stored"
    /\ IF load_previous_data_raises(data_file)
       THEN phase' = "raised" /\ UNCHANGED previous_snapshot
       ELSE /\ phase' = "loaded"
            /\ previous_snapshot' = load_previous_data(data_file)
    /\ UNCHANGED <<current_snapshot, deltas_all, metric, top_n, top_list>>
    /\ UNCHANGED <<main_vars, api_vars>>

\* deltas_all = compute_deltas_all(previous_snapshot, current_snapshot)
ComputeLoaded ==
    /\ phase = "loaded"
    /\ IF compute_deltas_all_raises(previous_snapshot, current_snapshot)
       THEN phase' = "raised" /\ UNCHANGED deltas_all
       ELSE /\ phase' = "deltas"
            /\ deltas_all' = compute_deltas_all(previous_snapshot, current_snapshot)
    /\ UNCHANGED <<previous_snapshot, current_snapshot, metric, top_n, top_list>>
    /\ UNCHANGED <<main_vars, api_vars>>

NextLoad ==
    \/ LoadPrevious
    \/ ComputeLoaded

SpecLoad == InitLoad /\ [][NextLoad]_vars

----------------------------------------------------------------------------
(* Inputs of the bulk fetch *)

\* n distinct video IDs
IdsUpTo(n) == [i \in 1..n |-> "vid" \o ToString(i)]

\* the lengths of video_ids: none, one, and a full batch or one ID more than
\* full batches
FetchLengths ==
    {0, 1} \cup {b * BatchSize : b \in 1..MaxBatches}
           \cup {b * BatchSize + 1 : b \in 1..(MaxBatches - 1)}

\* range(0, len(video_ids), 50): how many batches are requested
batch_count(ids) == (Len(ids) + BatchSize - 1) \div BatchSize

\* video_ids[i:i + 50] for the batch numbered b from 1
batch_of(ids, b) ==
    SubSeq(ids, (b - 1) * BatchSize + 1, Min(b * BatchSize, Len(ids)))

\* what videos.list can answer to one batch: a failure, every video asked
\* for, or every video but the last
BatchAnswers(batch) ==
    {HttpError, TransportError,
     Ok([i \in 1..Len(batch) |-> ItemFor(batch[i])]),
     Ok([i \in 1..(Len(batch) - 1) |-> ItemFor(batch[i])])}

\* one answer per batch
FetchAnswers(ids) ==
    {a \in [1..batch_count(ids) -> UNION {BatchAnswers(batch_of(ids, b)) :
                                            b \in 1..batch_count(ids)}] :
        \A b \in 1..batch_count(ids) : a[b] \in BatchAnswers(batch_of(ids, b))}

InitFetch ==
    /\ PureIdle
    /\ MainIdle
    /\ api_phase = "input"
    /\ call_video_ids \in {IdsUpTo(n) : n \in FetchLengths}
    /\ call_channels_cfg = <<>>
    /\ call_keywords_cfg = <<>>
    /\ answers \in FetchAnswers(call_video_ids)
    /\ returned = None

\* returned = fetch_youtube_stats_for_videos(YOUTUBE_API_KEY, video_ids)
FetchStats ==
    /\ api_phase = "input"
    /\ returned' = fetch_youtube_stats_for_videos(YOUTUBE_API_KEY, call_video_ids,
                                                  answers)
    /\ api_phase' = "returned"
    /\ UNCHANGED <<call_video_ids, call_channels_cfg, call_keywords_cfg, answers>>
    /\ UNCHANGED <<pure_vars, main_vars>>

NextFetch == FetchStats

SpecFetch == InitFetch /\ [][NextFetch]_vars

----------------------------------------------------------------------------
(* Inputs of the discovery build *)

\* the entries channels.json can hold; one has no channel_id
ChannelEntries ==
    {[key |-> "news", channel_id |-> "UCnews", label |-> "News"],
     [key |-> "news_uk", channel_id |-> "UCuk", label |-> "UK"],
     [key |-> "draft", channel_id |-> "", label |-> "Draft"]}

\* channels.json: up to two entries, in either order
ChannelsConfigs ==
    {<<>>} \cup {<<c>> : c \in ChannelEntries}
           \cup {<<c, d>> : c, d \in ChannelEntries}

\* keywords.json: no source, or one source with two queries
KeywordsConfigs ==
    {<<>>, <<[key |-> "ai", queries |-> <<"ai news", "ai safety">>, label |-> "AI"]>>}

\* the lists of video IDs a discovery call can return: the first ID, the
\* others in reverse, all of them with one repeated
FoundLists ==
    LET v == IdsUpTo(MaxFound) IN
    {<<v[1]>>, [i \in 1..(MaxFound - 1) |-> v[MaxFound + 1 - i]], v \o <<v[1]>>}

ChannelOutcomes == {Raises} \cup {Found(ids) : ids \in FoundLists}

QueryOutcomes == {Raises, KeywordHttpError} \cup {Found(ids) : ids \in FoundLists}

\* what the provider answers during one build: a result per channel, a result
\* per query of each keyword source, and the answer to the one stats batch
DiscoveryAnswers(ch_cfg, kw_cfg) ==
    {[channels |-> c, keywords |-> k, stats |-> <<st>>] :
        c \in [1..Len(ch_cfg) -> ChannelOutcomes],
        k \in [1..Len(kw_cfg) -> [1..2 -> QueryOutcomes]],
        st \in BatchAnswers(IdsUpTo(MaxFound))}

InitDiscover ==
    /\ PureIdle
    /\ MainIdle
    /\ api_phase = "input"
    /\ call_video_ids = <<>>
    /\ call_channels_cfg \in ChannelsConfigs
    /\ call_keywords_cfg \in KeywordsConfigs
    /\ answers \in DiscoveryAnswers(call_channels_cfg, call_keywords_cfg)
    /\ returned = None

\* returned = build_snapshot_from_channels_and_keywords()
BuildSnapshot ==
    /\ api_phase = "input"
    /\ returned' = build_snapshot_from_channels_and_keywords(
                       YOUTUBE_API_KEY, call_channels_cfg, call_keywords_cfg,
                       answers.channels, answers.keywords, answers.stats, now)
    /\ api_phase' = "returned"
    /\ UNCHANGED <<call_video_ids, call_channels_cfg, call_keywords_cfg, answers>>
    /\ UNCHANGED <<pure_vars, main_vars>>

NextDiscover == BuildSnapshot

SpecDiscover == InitDiscover /\ [][NextDiscover]_vars

----------------------------------------------------------------------------
(* Properties of the delta engine, checked under SpecDelta *)

\* the videos of the current snapshot
CurrentKeys == DictKeys(get_videos(current_snapshot))

\* the name of the Delta field of a numeric field
DeltaName(f) == f \o "_delta"

\* C6: with an absent previous snapshot (None, or a record without a videos
\* mapping) compute_deltas_all returns a DeltaSet whose keys are exactly the keys
\* of current and in which all five fields of every Delta are the absent-marker.
C6_AbsentPreviousAllAbsent ==
    (phase = "deltas"
     /\ (previous_snapshot = None \/ "videos" \notin DOMAIN previous_snapshot))
    => /\ deltas_all # Raised
       /\ DOMAIN deltas_all = {"videos"}
       /\ deltas_all.videos.keys = get_videos(current_snapshot).keys
       /\ \A k \in CurrentKeys :
            /\ DOMAIN deltas_all.videos.at[k] = DeltaFields
            /\ \A f \in DeltaFields : deltas_all.videos.at[k][f] = NA

\* a record without videos was the baseline of a current snapshot of two videos
C6_Witness ==
    /\ phase = "deltas"
    /\ previous_snapshot = [timestamp |-> 0]
    /\ Cardinality(CurrentKeys) = 2
    /\ DictKeys(deltas_all.videos) = CurrentKeys

\* C7: for every key k of current and field f of views, likes, comments,
\* subscribers: f_delta of k is defined iff k is in previous and f is present in
\* both current[k] and previous[k]; when defined it is current[k][f] -
\* previous[k][f] as a signed integer, otherwise it is the absent-marker.
C7_DeltaDefinedIffBoth ==
    phase = "deltas" =>
    \A k \in CurrentKeys : \A f \in NumericFields :
        LET in_both == /\ previous_snapshot # None
                       /\ k \in DictKeys(get_videos(previous_snapshot))
                       /\ f \in DOMAIN current_snapshot.videos.at[k]
                       /\ f \in DOMAIN previous_snapshot.videos.at[k]
            got == deltas_all.videos.at[k][DeltaName(f)]
        IN  IF in_both
            THEN got = PyInt(current_snapshot.videos.at[k][f]
                             - previous_snapshot.videos.at[k][f])
            ELSE got = NA

\* the views of KeyA went down, its likes have no baseline, KeyB is new
C7_Witness ==
    /\ phase = "deltas"
    /\ CurrentKeys = {KeyA, KeyB}
    /\ previous_snapshot # None
    /\ DictKeys(get_videos(previous_snapshot)) = {KeyA}
    /\ deltas_all.videos.at[KeyA]["views_delta"] = PyInt(0 - 2)
    /\ "likes" \in DOMAIN current_snapshot.videos.at[KeyA]
    /\ deltas_all.videos.at[KeyA]["likes_delta"] = NA
    /\ deltas_all.videos.at[KeyB]["views_delta"] = NA

\* C8: when views_delta of k is defined, views_delta_pct is the absent-marker if
\* previous[k].views <= 0 (never an error or infinity) and otherwise the float
\* (views_delta / previous[k].views) * 100; when views_delta is absent so is
\* views_delta_pct.
C8_PercentGuarded ==
    phase = "deltas" =>
    \A k \in CurrentKeys :
        LET entry == deltas_all.videos.at[k]
            pct == entry["views_delta_pct"]
        IN  IF entry["views_delta"] = NA
            THEN pct = NA
            ELSE LET prev_views == previous_snapshot.videos.at[k]["views"] IN
                 IF prev_views <= 0
                 THEN pct = NA
                 ELSE /\ pct.t = "float"
                      /\ pct.d > 0
                      /\ pct.n * prev_views = entry["views_delta"].n * 100 * pct.d

\* the baseline of KeyA had 0 views and the video now has 2
C8_Witness ==
    /\ phase = "deltas"
    /\ KeyA \in CurrentKeys
    /\ previous_snapshot # None
    /\ KeyA \in DictKeys(get_videos(previous_snapshot))
    /\ "views" \in DOMAIN previous_snapshot.videos.at[KeyA]
    /\ previous_snapshot.videos.at[KeyA]["views"] = 0
    /\ deltas_all.videos.at[KeyA]["views_delta"] = PyInt(2)
    /\ deltas_all.videos.at[KeyA]["views_delta_pct"] = NA

----------------------------------------------------------------------------
(* Properties of the ranker, checked under SpecRank *)

\* the delta of the requested metric for video k in the DeltaSet handed to the
\* ranker, the absent-marker when the key or the field is missing
RequestedDelta(k) ==
    LET delta_videos == get_videos(deltas_all) IN
    IF k \notin DictKeys(delta_videos) THEN NA
    ELSE IF metric \notin DOMAIN delta_videos.at[k] THEN NA
    ELSE delta_videos.at[k][metric]

\* the videos with a defined delta for the requested metric
Eligible == {k \in CurrentKeys : RequestedDelta(k) # NA}

\* the keys of the rows returned
RankedKeys == {top_list[i].video_key : i \in 1..Len(top_list)}

\* C9: get_top_videos_by_delta never returns a row for a video whose delta for
\* the requested metric is absent (key missing from the DeltaSet, or field
\* holding the absent-marker).
C9_NoRowForAbsentDelta ==
    phase = "ranked" =>
    \A i \in 1..Len(top_list) :
        /\ top_list[i].video_key \in Eligible
        /\ top_list[i].delta # NA

\* one video is missing from the DeltaSet, one holds the absent-marker, and the
\* third is the only row
C9_Witness ==
    /\ phase = "ranked"
    /\ CurrentKeys = {KeyA, KeyB, KeyC}
    /\ \E k \in CurrentKeys : k \notin DictKeys(deltas_all.videos)
    /\ \E k \in CurrentKeys :
         /\ k \in DictKeys(deltas_all.videos)
         /\ metric \in DOMAIN deltas_all.videos.at[k]
         /\ deltas_all.videos.at[k][metric] = NA
    /\ Len(top_list) = 1
    /\ top_n >= 2

\* C10: for positive n the result is the first n rows of the eligible videos in
\* descending order of delta: non-increasing, of length min(n, eligible count),
\* one row per video carrying its delta, no omitted eligible video has a delta
\* strictly greater than an included one, and with n >= the eligible count every
\* eligible video appears exactly once.
C10_TopNSortedDescending ==
    (phase = "ranked" /\ top_n > 0) =>
    /\ Len(top_list) = Min(top_n, Cardinality(Eligible))
    /\ \A i, j \in 1..Len(top_list) :
         i < j => /\ ~NumLess(top_list[i].delta, top_list[j].delta)
                  /\ top_list[i].video_key # top_list[j].video_key
    /\ \A i \in 1..Len(top_list) :
         /\ top_list[i].video_key \in Eligible
         /\ top_list[i].delta = RequestedDelta(top_list[i].video_key)
    /\ \A k \in Eligible \ RankedKeys : \A i \in 1..Len(top_list) :
         ~NumLess(top_list[i].delta, RequestedDelta(k))
    /\ top_n >= Cardinality(Eligible) => RankedKeys = Eligible

\* three eligible videos with different deltas, the smallest first in the
\* snapshot, and the two largest returned
C10_Witness ==
    /\ phase = "ranked"
    /\ top_n = 2
    /\ Cardinality(Eligible) = 3
    /\ Len(top_list) = 2
    /\ NumLess(top_list[2].delta, top_list[1].delta)
    /\ \E k \in Eligible \ RankedKeys :
         /\ NumLess(RequestedDelta(k), top_list[2].delta)
         /\ current_snapshot.videos.keys[1] = k

----------------------------------------------------------------------------
(* Properties of the label resolution, checked under SpecLabel *)

\* whether the Metrics record of k carries a non-empty label
HasOwnLabel(k) ==
    LET metrics == get_videos(current_snapshot).at[k] IN
    "label" \in DOMAIN metrics /\ metrics["label"] # ""

\* whether the static registry has an entry with a non-empty label for k
HasRegistryLabel(k) ==
    /\ k \in DictKeys(TRACKED_VIDEOS)
    /\ TRACKED_VIDEOS.at[k]["label"] # ""

\* C11: the label of every returned row is the non-empty label of the video's
\* Metrics record, else the non-empty label of the registry entry for its key,
\* else the key; with a non-empty Metrics label the registry label never shows.
C11_LabelPriority ==
    \A i \in 1..Len(top_list) :
        LET r == top_list[i]
            k == r.video_key
        IN  /\ k \in CurrentKeys
            /\ HasOwnLabel(k)
                => /\ r.label = get_videos(current_snapshot).at[k]["label"]
                   /\ HasRegistryLabel(k)
                      => r.label # TRACKED_VIDEOS.at[k]["label"]
            /\ (~HasOwnLabel(k) /\ HasRegistryLabel(k))
                => r.label = TRACKED_VIDEOS.at[k]["label"]
            /\ (~HasOwnLabel(k) /\ ~HasRegistryLabel(k)) => r.label = k

\* a ranking with a row for a registered video labelled by its own Metrics
\* record beside a row that fell back on the registry or on the key
C11_Witness ==
    /\ phase = "ranked"
    /\ \E i, j \in 1..Len(top_list) :
          /\ HasOwnLabel(top_list[i].video_key)
          /\ HasRegistryLabel(top_list[i].video_key)
          /\ top_list[i].label = "label of " \o top_list[i].video_key
          /\ ~HasOwnLabel(top_list[j].video_key)

----------------------------------------------------------------------------
(* Properties of the bulk fetch, checked under SpecFetch *)

\* the batches whose request failed
FailedBatches == {b \in 1..Len(answers) : answers[b].kind # "ok"}

\* the batches whose request failed with an HTTP error status
HttpFailedBatches == {b \in 1..Len(answers) : answers[b].kind = "http_error"}

\* the first batch of a non-empty set of batches
FirstOf(batches) == CHOOSE b \in batches : \A c \in batches : b <= c

\* the items answered to the batches before batch i
ItemsBefore(i) ==
    UNION {Range(answers[b].items) : b \in 1..(i - 1)}

\* whether stats holds exactly the entries of the batches before batch i
HoldsBatchesBefore(stats, i) ==
    /\ DOMAIN stats = {item.id : item \in ItemsBefore(i)}
    /\ \A item \in ItemsBefore(i) : stats[item.id] = stats_entry(item)

\* C12: if the request for batch i fails with any transport or HTTP failure,
\* the call does not raise and returns exactly the entries collected from the
\* batches before i.
C12_FailureReturnsEarlierBatches ==
    (api_phase = "returned" /\ FailedBatches # {})
    => /\ ~returned.raised
       /\ HoldsBatchesBefore(returned.stats, FirstOf(FailedBatches))

\* the part of C12 about HTTP error statuses: when the first failure is an
\* HTTPError the call returns the entries of the batches before it
C12_HttpFailureReturnsEarlierBatches ==
    (api_phase = "returned" /\ FailedBatches # {}
     /\ FirstOf(FailedBatches) \in HttpFailedBatches)
    => /\ ~returned.raised
       /\ HoldsBatchesBefore(returned.stats, FirstOf(FailedBatches))

\* an HTTP error on the third batch, after two batches that were stored
C12_HttpWitness ==
    /\ api_phase = "returned"
    /\ FailedBatches # {}
    /\ FirstOf(FailedBatches) = 3
    /\ 3 \in HttpFailedBatches
    /\ Cardinality(DOMAIN returned.stats) > BatchSize

----------------------------------------------------------------------------
(* Properties of the load, checked under SpecLoad *)

\* whether the stored record parses as a snapshot: JSON text of an object
\* whose "videos" is a mapping
HoldsSnapshot(file) ==
    /\ file.kind = "json"
    /\ file.value # None
    /\ "videos" \in DOMAIN file.value
    /\ file.value.videos # None

\* whether every video of current has an entry with every delta absent
AllDeltasAbsent ==
    /\ DictKeys(get_videos(deltas_all)) = CurrentKeys
    /\ \A k \in CurrentKeys : get_videos(deltas_all).at[k] = AllNA

\* C13: load_previous_data never raises for any state of the stored record; it
\* returns None when no record exists or the record cannot be parsed as a
\* snapshot, and the run goes through compute_deltas_all with all deltas
\* absent rather than failing.
C13_UnusableRecordIsAbsent ==
    /\ phase # "raised"
    /\ (phase \in {"loaded", "deltas"} /\ ~HoldsSnapshot(data_file))
       => previous_snapshot = None
    /\ (phase = "deltas" /\ ~HoldsSnapshot(data_file)) => AllDeltasAbsent

\* the part of C13 about a record that is missing or is not JSON text: the
\* load returns None and every delta is absent
C13_MissingOrInvalidJsonIsAbsent ==
    data_file \in {Missing, Corrupt}
    => /\ phase # "raised"
       /\ phase \in {"loaded", "deltas"} => previous_snapshot = None
       /\ phase = "deltas" => AllDeltasAbsent

\* a run over a record that is not JSON text, with videos to compute on
C13_InvalidJsonWitness ==
    /\ phase = "deltas"
    /\ data_file = Corrupt
    /\ CurrentKeys = {KeyA, KeyB}
    /\ AllDeltasAbsent

----------------------------------------------------------------------------
(* Properties of the discovery build, checked under SpecDiscover *)

\* the sources whose call returned IDs, each with its place in the order of
\* discovery: channels in config order, then keyword queries in config order
DiscoverySources ==
    {[place |-> i, type |-> "channel", key |-> call_channels_cfg[i].key,
      label |-> call_channels_cfg[i].label, ids |-> Range(answers.channels[i].ids)] :
        i \in {c \in 1..Len(call_channels_cfg) :
                 /\ call_channels_cfg[c].channel_id # ""
                 /\ answers.channels[c].kind = "ok"}}
    \cup
    UNION {{[place |-> Len(call_channels_cfg) + 2 * j + q, type |-> "keyword",
             key |-> call_keywords_cfg[j].key, label |-> call_keywords_cfg[j].label,
             ids |-> Range(answers.keywords[j][q].ids)] :
               q \in {p \in 1..2 : answers.keywords[j][p].kind = "ok"}} :
           j \in 1..Len(call_keywords_cfg)}

\* every ID some source discovered
DiscoveredIds == UNION {src.ids : src \in DiscoverySources}

\* the first source that discovered vid
FirstSource(vid) ==
    CHOOSE src \in DiscoverySources :
        /\ vid \in src.ids
        /\ \A other \in DiscoverySources : vid \in other.ids => src.place <= other.place

\* the IDs the stats request returned an item for
IdsWithStats == {item.id : item \in Range(answers.stats[1].items)}

\* the entities of the snapshot the build returned
BuiltVideos == get_videos(returned.snapshot)

\* the keys of the entities that hold vid
EntitiesOf(vid) == {k \in DictKeys(BuiltVideos) : BuiltVideos.at[k].video_id = vid}

\* C14: in the snapshot the build returns every video ID appears in at most one
\* entity, attributed to the first source that discovered it, and every
\* discovered ID for which stats were returned appears in exactly one entity.
C14_OneEntityPerIdFirstSource ==
    (api_phase = "returned" /\ ~returned.raised)
    => /\ \A i, j \in 1..Len(BuiltVideos.keys) :
             BuiltVideos.keys[i] = BuiltVideos.keys[j] => i = j
       /\ \A k \in DictKeys(BuiltVideos) :
             LET vid == BuiltVideos.at[k].video_id IN
             /\ EntitiesOf(vid) = {k}
             /\ vid \in DiscoveredIds
             /\ k = FirstSource(vid).type \o "_" \o FirstSource(vid).key \o "_" \o vid
       /\ \A vid \in DiscoveredIds \cap IdsWithStats :
             Cardinality(EntitiesOf(vid)) = 1

\* a build where a channel and a later keyword query both found the first
\* video, a second channel found others, and stats came back for all
C14_Witness ==
    /\ api_phase = "returned"
    /\ ~returned.raised
    /\ Cardinality(DictKeys(BuiltVideos)) = MaxFound
    /\ \E s1, s2 \in DiscoverySources :
          /\ s1.type = "channel"
          /\ s2.type = "keyword"
          /\ IdsUpTo(MaxFound)[1] \in s1.ids \cap s2.ids
    /\ \E k1, k2 \in DictKeys(BuiltVideos) :
          FirstSource(BuiltVideos.at[k1].video_id).key
             # FirstSource(BuiltVideos.at[k2].video_id).key

====
